---------------------------- MODULE Spec2Model ----------------------------
(***************************************************************************)
(* A model of the multiverse simulation: the MessageFactory of             *)
(* src/multiverse/messagefactory.go, the per-node tangle pipeline it       *)
(* feeds, and the monitoring harness of src/main.go (the event handlers,   *)
(* the flip counting and sendMessage).                                     *)
(*                                                                         *)
(* The module holds several specifications over one set of variables.      *)
(* Each specification drives one part of the program and leaves the        *)
(* variables of the other parts at their initial values:                   *)
(*   SpecIssue     nodes that issue and process messages, each call of     *)
(*                 CreateMessage running alone                             *)
(*   SpecTangle    the same with CreateMessage callers that run            *)
(*                 concurrently with each other and with the pipeline      *)
(*   SpecFlips     mostLikedColorChanged applied to a sequence of counts   *)
(*   SpecOpinion   the OpinionChanged handlers of the peers, interleaved   *)
(*   SpecConfirm   the ColorConfirmed / ColorUnconfirmed /                 *)
(*                 MinConfirmedWeightUpdated handlers                      *)
(*   SpecSend      sendMessage, as the security workers and                *)
(*                 SimulateDoubleSpent call it                             *)
(*   SpecRace      SpecOpinion with the unlocked reads and the write of    *)
(*                 mostLikedColorChanged as separate steps                 *)
(*   SpecShutdown  main from its select on, the dumping goroutine and the  *)
(*                 confirmation handlers it reads the counters of          *)
(* SpecIssueFair and SpecShutdownFair add the fairness of the scheduling.  *)
(***************************************************************************)
EXTENDS Integers, Sequences, FiniteSets, TLC

(***************************************************************************)
(* Bounds of the model.                                                    *)
(***************************************************************************)
\* number of peers of the tangle specification
NumNodes == 2
\* number of messages issued in one run of the sequential specification
MaxMsgs == 4
\* number of CreateMessage calls started in one run of the concurrent one
MaxCalls == 3
\* number of goroutines that may be inside CreateMessage at the same time
NumCallers == 2
\* config.ParentsCount: the number k of strong parents Tips() selects
ParentsCount == 2

Nodes == 1..NumNodes
Callers == 1..NumCallers
MsgIDs == 1..MaxMsgs

\* multiverse.Genesis: the zero value of MessageID
Genesis == 0

\* multiverse.Color
Undefined == "Undefined"
Red == "Red"
Green == "Green"
Blue == "Blue"
RGB == {Red, Green, Blue}
Colors == {Undefined} \cup RGB

SetMax(S) == CHOOSE x \in S : \A y \in S : y <= x
SetMin(S) == CHOOSE x \in S : \A y \in S : x <= y
RECURSIVE SumOver(_, _)
SumOver(f, S) == IF S = {} THEN 0
                 ELSE LET x == CHOOSE y \in S : TRUE
                      IN f[x] + SumOver(f, S \ {x})
Range(s) == {s[i] : i \in DOMAIN s}

VARIABLES
  \* ---- tangle specification ----
  messages,          \* every message CreateMessage has returned, by MessageID
  messageIDCounter,  \* the global counter behind NewMessageID
  sequenceNumber,    \* MessageFactory.sequenceNumber of each node
  calls,             \* the CreateMessage activation of each caller
  started,           \* how many CreateMessage calls have been started
  tangle,            \* each node's Storage, TipManager, Requester and metadata
  inflight,          \* <<node, MessageID>>: messages on their way to a node
  callLog,           \* what each finished CreateMessage call observed
  deliveries,        \* how often each node was handed each message
  \* ---- flip counting (src/main.go) ----
  mostLikedColor,            \* the global mostLikedColor
  honestOnlyMostLikedColor,  \* the global honestOnlyMostLikedColor
  flips,                     \* atomicCounters "flips"
  honestFlips,               \* atomicCounters "honestFlips"
  likedHistory,      \* the value of mostLikedColor after each call so far
  lastCall,          \* the counts and the result of the latest call
  \* ---- OpinionChanged handlers ----
  opinions,                  \* colorCounters "opinions"
  advOpinions,               \* adversaryCounters "opinions"
  likeAccumulatedWeight,     \* colorCounters "likeAccumulatedWeight"
  advLikeAccumulatedWeight,  \* adversaryCounters "likeAccumulatedWeight"
  handler,           \* each peer's running OpinionChanged handler, if any
  peerOpinion,       \* the opinion each peer's OpinionManager holds
  opinionEvents,     \* how many OpinionChanged events have been triggered
  \* ---- confirmation handlers ----
  confirmedNodes,                 \* colorCounters "confirmedNodes"
  advConfirmedNodes,              \* adversaryCounters "confirmedNodes"
  colorUnconfirmed,               \* colorCounters "colorUnconfirmed"
  confirmedAccumulatedWeight,     \* colorCounters, same name
  advConfirmedAccumulatedWeight,  \* adversaryCounters, same name
  unconfirmedAccumulatedWeight,   \* colorCounters, same name
  minConfirmedAccumulatedWeight,  \* nodeCounters[i], same name
  unconfirmationCount,            \* nodeCounters[i], same name
  nodeConfirmed,     \* the colour each peer's OpinionManager has confirmed
  weightsSince,      \* the weights MinConfirmedWeightUpdated delivered to
                     \* each peer since its latest ColorUnconfirmed
  confirmEvents,     \* how many confirmation events have been triggered
  \* ---- sendMessage ----
  tps,               \* atomicCounters "tps"
  issuedPayloads,    \* the payloads each peer's node was asked to issue
  sendCalls,         \* the optionalColor of each sendMessage call, by peer
  \* ---- shutdown ----
  mainPc,            \* where the main goroutine is
  shutdownCause,     \* the case of main's select that was taken
  dumpPc,            \* where the dumping goroutine is
  dump,              \* the locals r, g, b, aR, aG, aB of dumpRecords
  tickPending,       \* a tick waits in the channel dumpingTicker.C
  tickerStopped,     \* dumpingTicker.Stop() was called
  ticks,             \* how many ticks the ticker has sent
  simulationWg,      \* the counter of the WaitGroup simulationWg
  confirmHandler     \* each peer's running ColorConfirmed handler, if any

tangleVars == <<messages, messageIDCounter, sequenceNumber, calls, started,
                tangle, inflight, callLog, deliveries>>

flipVars == <<mostLikedColor, honestOnlyMostLikedColor, flips, honestFlips,
              likedHistory, lastCall>>

opinionVars == <<opinions, advOpinions, likeAccumulatedWeight,
                 advLikeAccumulatedWeight, handler, peerOpinion,
                 opinionEvents>>

confirmVars == <<confirmedNodes, advConfirmedNodes, colorUnconfirmed,
                 confirmedAccumulatedWeight, advConfirmedAccumulatedWeight,
                 unconfirmedAccumulatedWeight, minConfirmedAccumulatedWeight,
                 unconfirmationCount, nodeConfirmed, weightsSince,
                 confirmEvents>>

sendVars == <<tps, issuedPayloads, sendCalls>>

shutdownVars == <<mainPc, shutdownCause, dumpPc, dump, tickPending,
                  tickerStopped, ticks, simulationWg, confirmHandler>>

vars == <<tangleVars, flipVars, opinionVars, confirmVars, sendVars,
          shutdownVars>>

\* what the actions of each part leave alone
notTangleVars == <<flipVars, opinionVars, confirmVars, sendVars, shutdownVars>>
notFlipVars == <<tangleVars, opinionVars, confirmVars, sendVars, shutdownVars>>
notOpinionVars == <<tangleVars, likedHistory, lastCall, confirmVars, sendVars,
                    shutdownVars>>
notConfirmVars == <<tangleVars, flipVars, opinionVars, sendVars, shutdownVars>>
notSendVars == <<tangleVars, flipVars, opinionVars, confirmVars, shutdownVars>>

(***************************************************************************)
(* MessageFactory.CreateMessage (src/multiverse/messagefactory.go).        *)
(* The TipManager, the Storage and NewMessageID are not among the source   *)
(* files; they follow sections 4.1 to 4.5 of the specification.            *)
(***************************************************************************)
\* the payload colours the callers of the tangle specification supply
Payloads == {Undefined, Red}

\* TipManager.Tips(): k tips, all of them when fewer exist, {Genesis} when none
Tips(tm) ==
  IF DOMAIN tm = {} THEN {{Genesis}}
  ELSE {S \in SUBSET (DOMAIN tm) :
          Cardinality(S) = IF Cardinality(DOMAIN tm) < ParentsCount
                           THEN Cardinality(DOMAIN tm) ELSE ParentsCount}

\* TipManager.GetTip(id): the height stored with a tip, when id is a tip
GetTip(tm, id) ==
  IF id \in DOMAIN tm THEN [msg |-> tm[id], ok |-> TRUE]
  ELSE [msg |-> 0, ok |-> FALSE]

\* for s := range strongParents { sp = s }: Go ranges over a map in an
\* unspecified order, so sp ends as any element; the zero value when empty
LastRanged(strongParents) ==
  IF strongParents = {} THEN {Genesis} ELSE strongParents

NeedsTipLookupAlways(sp) == TRUE

\* if sp != Genesis
NeedsTipLookup(sp) == sp # Genesis

\* height: parentheight + 1
MessageHeight(parentheight) == parentheight + 1

AddUint64Lost(value, delta) == value

\* atomic.AddUint64: the new value, stored and returned in one step
\* (the counter stays far below 2^64 within MaxMsgs calls)
AddUint64(value, delta) == value + delta

\* lines 51-60: the Message literal CreateMessage returns
NewMessage(id, strongParents, parentheight, seq, issuer, payload) ==
  [ID |-> id, StrongParents |-> strongParents,
   height |-> MessageHeight(parentheight),
   SequenceNumber |-> seq, Issuer |-> issuer, Payload |-> payload]

IdleCall == [pc |-> "idle", node |-> 0, payload |-> Undefined,
             strongParents |-> {}, sp |-> Genesis, parentheight |-> 0,
             id |-> 0, lookups |-> 0, tipsEmpty |-> FALSE,
             returnedBefore |-> {}]

\* the messages of node n's factory that have been returned
ReturnedBy(n) == {i \in DOMAIN messages : messages[i].Issuer = n}

\* lines 25-34: the call to Tips(), the range loop and the test of sp
CMTips(c, n, payload) ==
  /\ calls[c].pc = "idle"
  \* the callers are interchangeable: the lowest idle one starts
  /\ \A d \in Callers : d < c => calls[d].pc # "idle"
  /\ started < MaxCalls
  /\ \E strongParents \in Tips(tangle[n].TipManager) :
       \E sp \in LastRanged(strongParents) :
         calls' = [calls EXCEPT ![c] =
           [pc |-> IF NeedsTipLookup(sp) THEN "gettip" ELSE "newid",
            node |-> n, payload |-> payload,
            strongParents |-> strongParents, sp |-> sp, parentheight |-> 0,
            id |-> 0, lookups |-> 0,
            tipsEmpty |-> (DOMAIN tangle[n].TipManager = {}),
            returnedBefore |-> ReturnedBy(n)]]
  /\ started' = started + 1
  /\ UNCHANGED <<messages, messageIDCounter, sequenceNumber, tangle,
                 inflight, callLog, deliveries>>
  /\ UNCHANGED notTangleVars

\* lines 43-47: msg, ok := GetTip(sp); if ok { parentheight = msg }
CMGetTip(c) ==
  /\ calls[c].pc = "gettip"
  /\ LET r == GetTip(tangle[calls[c].node].TipManager, calls[c].sp)
     IN calls' = [calls EXCEPT
          ![c].parentheight = IF r.ok THEN r.msg ELSE @,
          ![c].lookups = @ + 1,
          ![c].pc = "newid"]
  /\ UNCHANGED <<messages, messageIDCounter, sequenceNumber, started, tangle,
                 inflight, callLog, deliveries>>
  /\ UNCHANGED notTangleVars

\* line 52: ID: NewMessageID()
CMNewID(c) ==
  /\ calls[c].pc = "newid"
  /\ messageIDCounter' = messageIDCounter + 1
  /\ calls' = [calls EXCEPT ![c].id = messageIDCounter + 1, ![c].pc = "add"]
  /\ UNCHANGED <<messages, sequenceNumber, started, tangle, inflight,
                 callLog, deliveries>>
  /\ UNCHANGED notTangleVars

CMReturnAddsTip(c) ==
  /\ calls[c].pc = "add"
  /\ LET n == calls[c].node
         id == calls[c].id
         seq == AddUint64(sequenceNumber[n], 1)
     IN /\ sequenceNumber' = [sequenceNumber EXCEPT ![n] = seq]
        /\ messages' = messages @@ (id :>
              NewMessage(id, calls[c].strongParents, calls[c].parentheight,
                         seq, n, calls[c].payload))
        /\ callLog' = callLog @@ (id :>
              [lookups |-> calls[c].lookups, tipsEmpty |-> calls[c].tipsEmpty,
               returnedBefore |-> calls[c].returnedBefore])
        /\ inflight' = inflight \cup {<<n, id>>}
        /\ tangle' = [tangle EXCEPT ![n].TipManager =
              [x \in DOMAIN @ \cup {id} |->
                 IF x = id THEN MessageHeight(calls[c].parentheight) ELSE @[x]]]
  /\ calls' = [calls EXCEPT ![c] = IdleCall]
  /\ UNCHANGED <<messageIDCounter, started, deliveries>>
  /\ UNCHANGED notTangleVars

\* lines 51-60: the sequence number is drawn and the message returned; the
\* caller (IssuePayload) hands it to the issuer's own tangle
CMReturn(c) ==
  /\ calls[c].pc = "add"
  /\ LET n == calls[c].node
         id == calls[c].id
         seq == AddUint64(sequenceNumber[n], 1)
     IN /\ sequenceNumber' = [sequenceNumber EXCEPT ![n] = seq]
        /\ messages' = messages @@ (id :>
              NewMessage(id, calls[c].strongParents, calls[c].parentheight,
                         seq, n, calls[c].payload))
        /\ callLog' = callLog @@ (id :>
              [lookups |-> calls[c].lookups, tipsEmpty |-> calls[c].tipsEmpty,
               returnedBefore |-> calls[c].returnedBefore])
        /\ inflight' = inflight \cup {<<n, id>>}
  /\ calls' = [calls EXCEPT ![c] = IdleCall]
  /\ UNCHANGED <<messageIDCounter, started, tangle, deliveries>>
  /\ UNCHANGED notTangleVars

\* lines 23-61 run by one goroutine with nothing in between: the node's
\* IssuePayload creates the message and hands it to the node's own tangle,
\* which processes it before the node issues again
IssuePayload(n, payload) ==
  /\ messageIDCounter < MaxMsgs
  /\ \A id \in ReturnedBy(n) : <<n, id>> \notin inflight
  /\ \E strongParents \in Tips(tangle[n].TipManager) :
       \E sp \in LastRanged(strongParents) :
         LET lookup == NeedsTipLookup(sp)
             r == GetTip(tangle[n].TipManager, sp)
             parentheight == IF lookup /\ r.ok THEN r.msg ELSE 0
             id == messageIDCounter + 1
             seq == AddUint64(sequenceNumber[n], 1)
         IN /\ messageIDCounter' = id
            /\ sequenceNumber' = [sequenceNumber EXCEPT ![n] = seq]
            /\ messages' = messages @@ (id :>
                  NewMessage(id, strongParents, parentheight, seq, n, payload))
            /\ callLog' = callLog @@ (id :>
                  [lookups |-> IF lookup THEN 1 ELSE 0,
                   tipsEmpty |-> (DOMAIN tangle[n].TipManager = {}),
                   returnedBefore |-> ReturnedBy(n)])
            /\ inflight' = inflight \cup {<<n, id>>}
  /\ UNCHANGED <<calls, started, tangle, deliveries>>
  /\ UNCHANGED notTangleVars

CreateMessage ==
  \E c \in Callers :
    \/ \E n \in Nodes, payload \in Payloads : CMTips(c, n, payload)
    \/ CMGetTip(c)
    \/ CMNewID(c)
    \/ CMReturn(c)

(***************************************************************************)
(* The per-node tangle: Tangle.ProcessMessage and the components it        *)
(* drives.  None of them is among the source files; the pipeline follows   *)
(* sections 4.1 to 4.6 of the specification.                               *)
(***************************************************************************)
\* the peers a node gossips to
Neighbors(n) == Nodes \ {n}

\* the mana of a peer (WeightDistribution.Weight) and the total mana
Mana == [p \in Nodes |-> NumNodes + 1 - p]
TotalMana == SumOver(Mana, Nodes)

\* weight >= confirmation_threshold * total_mana, with a threshold of 2/3
ReachesThreshold(weight) == 3 * weight >= 2 * TotalMana

ZeroCount == [m \in MsgIDs |-> 0]

EmptyTangle ==
  [Storage |-> {}, solid |-> {}, TipManager |-> <<>>, Requester |-> {},
   supporters |-> [m \in MsgIDs |-> {}], weight |-> ZeroCount,
   confirmed |-> {},
   bookOrder |-> <<>>,   \* the messages booked so far, in booking order
   Events |-> [MessageStored |-> ZeroCount, Booked |-> ZeroCount,
               TipAdded |-> ZeroCount, Gossiped |-> ZeroCount,
               Request |-> ZeroCount]]

StrongParentsOf(id) == messages[id].StrongParents \ {Genesis}

\* the message and its transitive strong ancestors, Genesis left out
RECURSIVE PastCone(_)
PastCone(id) == {id} \cup UNION {PastCone(p) : p \in StrongParentsOf(id)}

StoreAlways(t, id) == TRUE

\* Storage.store: Inserted (TRUE) when the message is absent, else Duplicate
Store(t, id) == id \notin t.Storage

\* stage 2: every strong parent is Genesis or solid itself
ParentsSolid(t, id) == \A p \in StrongParentsOf(id) : p \in t.solid

\* the parents the Requester has to ask for
MissingParents(t, id) == {p \in StrongParentsOf(id) : p \notin t.Storage}

ApproveCountsAgain(t, id) ==
  LET p == messages[id].Issuer
      weight == [a \in MsgIDs |->
                   IF a \in PastCone(id) THEN t.weight[a] + Mana[p]
                   ELSE t.weight[a]]
  IN [t EXCEPT
        !.supporters = [a \in MsgIDs |->
                          IF a \in PastCone(id) THEN @[a] \cup {p} ELSE @[a]],
        !.weight = weight,
        !.confirmed = @ \cup {a \in PastCone(id) : ReachesThreshold(weight[a])}]

ApproveConfirmsBookedOnly(t, id) ==
  LET p == messages[id].Issuer
      fresh == {a \in PastCone(id) : p \notin t.supporters[a]}
      weight == [a \in MsgIDs |->
                   IF a \in fresh THEN t.weight[a] + Mana[p] ELSE t.weight[a]]
  IN [t EXCEPT
        !.supporters = [a \in MsgIDs |->
                          IF a \in fresh THEN @[a] \cup {p} ELSE @[a]],
        !.weight = weight,
        !.confirmed = @ \cup {a \in {id} : ReachesThreshold(weight[a])}]

\* stage 3, ApprovalManager: the issuer supports the message and its strong
\* past cone; each supporter's mana is added once
Approve(t, id) ==
  LET p == messages[id].Issuer
      fresh == {a \in PastCone(id) : p \notin t.supporters[a]}
      weight == [a \in MsgIDs |->
                   IF a \in fresh THEN t.weight[a] + Mana[p] ELSE t.weight[a]]
  IN [t EXCEPT
        !.supporters = [a \in MsgIDs |->
                          IF a \in fresh THEN @[a] \cup {p} ELSE @[a]],
        !.weight = weight,
        !.confirmed = @ \cup {a \in fresh : ReachesThreshold(weight[a])}]

\* stage 4, TipManager: the strong parents leave the tip set, the message
\* enters it with its height
UpdateTips(tm, id) ==
  LET keep == (DOMAIN tm \ messages[id].StrongParents) \cup {id}
  IN [x \in keep |-> IF x = id THEN messages[id].height ELSE tm[x]]

\* stages 3 to 5 for one solid message
Book(t, id) ==
  LET a == Approve(t, id)
  IN [a EXCEPT
        !.solid = @ \cup {id},
        !.bookOrder = Append(@, id),
        !.TipManager = UpdateTips(@, id),
        !.Events.Booked[id] = @ + 1,
        !.Events.TipAdded[id] = @ + 1,
        !.Events.Gossiped[id] = @ + 1]

\* stages 2 and 6: book every stored message whose parents are solid, the
\* parents first (a parent's MessageID is smaller than its children's)
RECURSIVE Solidify(_)
Solidify(t) ==
  LET ready == {m \in t.Storage \ t.solid : ParentsSolid(t, m)}
  IN IF ready = {} THEN t ELSE Solidify(Book(t, SetMin(ready)))

\* stage 2 for a message with a missing or unsolid parent: it is parked and
\* a Request is emitted for each parent that is not stored
Park(t, id) ==
  LET missing == MissingParents(t, id) \ t.Requester
  IN [t EXCEPT
        !.Requester = @ \cup missing,
        !.Events.Request = [m \in MsgIDs |->
                              IF m \in missing THEN @[m] + 1 ELSE @[m]]]

PipelineWithoutWake(t, id) ==
  IF ~Store(t, id) THEN t
  ELSE LET stored == [t EXCEPT !.Storage = @ \cup {id},
                               !.Requester = @ \ {id},
                               !.Events.MessageStored[id] = @ + 1]
       IN IF ParentsSolid(stored, id) THEN Book(stored, id)
          ELSE Park(stored, id)

\* Tangle.ProcessMessage: the whole pipeline for one delivery
Pipeline(t, id) ==
  IF ~Store(t, id) THEN t
  ELSE LET stored == [t EXCEPT !.Storage = @ \cup {id},
                               !.Requester = @ \ {id},
                               !.Events.MessageStored[id] = @ + 1]
       IN IF ParentsSolid(stored, id) THEN Solidify(stored)
          ELSE Park(stored, id)

\* a node takes one message from its inbox and runs the pipeline; what it
\* booked is gossiped to its neighbours
ProcessMessage(n, id) ==
  /\ <<n, id>> \in inflight
  /\ LET t == Pipeline(tangle[n], id)
     IN /\ tangle' = [tangle EXCEPT ![n] = t]
        /\ inflight' = (inflight \ {<<n, id>>}) \cup
                          {<<nb, m>> : nb \in Neighbors(n),
                                       m \in t.solid \ tangle[n].solid}
  /\ deliveries' = [deliveries EXCEPT ![n][id] = @ + 1]
  /\ UNCHANGED <<messages, messageIDCounter, sequenceNumber, calls, started,
                 callLog>>
  /\ UNCHANGED notTangleVars

\* NewMessageFactory (lines 16-21) and the empty tangle of every node
InitTangle ==
  /\ messages = <<>>
  /\ messageIDCounter = 0
  /\ sequenceNumber = [n \in Nodes |-> 0]
  /\ calls = [c \in Callers |-> IdleCall]
  /\ started = 0
  /\ tangle = [n \in Nodes |-> EmptyTangle]
  /\ inflight = {}
  /\ callLog = <<>>
  /\ deliveries = [n \in Nodes |-> ZeroCount]


(***************************************************************************)
(* Flip counting: mostLikedColorChanged (src/main.go, lines 860-883).      *)
(***************************************************************************)
\* the largest like count a call is given
MaxLikes == 2
\* number of calls in one run of the flip specification
MaxFlipCalls == 3

CurrentMostLikedColorRedOnTie(r, g, b) ==
  LET c1 == IF g > 0 THEN Green ELSE Undefined
      c2 == IF b > g THEN Blue ELSE c1
  IN IF r >= b /\ r >= g THEN Red ELSE c2

\* lines 862-871: the three tests, each overriding the one before
CurrentMostLikedColor(r, g, b) ==
  LET c1 == IF g > 0 THEN Green ELSE Undefined
      c2 == IF b > g THEN Blue ELSE c1
  IN IF r > b /\ r > g THEN Red ELSE c2

MostLikedColorChangedCountsFirst(r, g, b, mostLikedColorVar) ==
  LET currentMostLikedColor == CurrentMostLikedColor(r, g, b)
  IN [changed |-> mostLikedColorVar # currentMostLikedColor,
      var |-> currentMostLikedColor]

\* lines 860-883: the result and the new value of *mostLikedColorVar
MostLikedColorChanged(r, g, b, mostLikedColorVar) ==
  LET currentMostLikedColor == CurrentMostLikedColor(r, g, b)
  IN IF mostLikedColorVar # currentMostLikedColor
     THEN IF mostLikedColorVar = Undefined
          THEN [changed |-> FALSE, var |-> currentMostLikedColor]
          ELSE [changed |-> TRUE, var |-> currentMostLikedColor]
     ELSE [changed |-> FALSE, var |-> mostLikedColorVar]

\* lines 459-461 on their own: one call with the counts r, g, b
CallMostLikedColorChanged(r, g, b) ==
  /\ Len(likedHistory) < MaxFlipCalls
  /\ LET res == MostLikedColorChanged(r, g, b, mostLikedColor)
     IN /\ mostLikedColor' = res.var
        /\ flips' = IF res.changed THEN flips + 1 ELSE flips
        /\ likedHistory' = Append(likedHistory, res.var)
        /\ lastCall' = [r |-> r, g |-> g, b |-> b, changed |-> res.changed]
  /\ UNCHANGED <<honestOnlyMostLikedColor, honestFlips>>
  /\ UNCHANGED notFlipVars

\* lines 318-319 and 329-330
InitFlips ==
  /\ mostLikedColor = Undefined
  /\ honestOnlyMostLikedColor = Undefined
  /\ flips = 0
  /\ honestFlips = 0
  /\ likedHistory = <<>>
  /\ lastCall = [r |-> 0, g |-> 0, b |-> 0, changed |-> FALSE]

(***************************************************************************)
(* The OpinionChanged handler of every peer (src/main.go, lines 451-474).  *)
(* The handlers of different peers run on the peers' own goroutines and    *)
(* interleave between their accesses to the shared counters.  Each access  *)
(* of a counter is atomic.  Accesses that no handler can tell apart are    *)
(* taken together: the adds to a likeAccumulatedWeight counter go with the *)
(* add to opinions next to them, and the add to a flip counter goes with   *)
(* the call of mostLikedColorChanged that decides it.  The call itself     *)
(* reads and writes the tracked colour in one step.                        *)
(***************************************************************************)
\* config.NodesCount of the handler specification
NumPeers == 3
\* the peers 1..NumHonest are honest, the others adversaries
NumHonest == 1
\* number of OpinionChanged events in one run
MaxOpinionEvents == 3

Peers == 1..NumPeers

\* network.IsAdversary
IsAdversary(p) == p > NumHonest

\* the weight an OpinionChanged event carries: the mana of its peer
PeerWeight(p) == NumPeers + 1 - p

\* ColorCounters.Add
CounterAdd(counter, value, color) == [counter EXCEPT ![color] = @ + value]

\* ColorCounters.Get
CounterGet(counter, color) == counter[color]

IdleHandler == [pc |-> "idle", oldOpinion |-> Undefined,
                newOpinion |-> Undefined, r |-> 0, g |-> 0, b |-> 0,
                ar |-> 0, ag |-> 0, ab |-> 0]

\* the peer's OpinionManager flips to another colour and triggers the
\* event; line 452
OCTrigger(p, new) ==
  /\ handler[p].pc = "idle"
  /\ opinionEvents < MaxOpinionEvents
  /\ new # peerOpinion[p]
  /\ peerOpinion' = [peerOpinion EXCEPT ![p] = new]
  /\ opinionEvents' = opinionEvents + 1
  /\ handler' = [handler EXCEPT ![p] =
        [IdleHandler EXCEPT !.pc = "inc", !.oldOpinion = peerOpinion[p],
                            !.newOpinion = new]]
  /\ opinions' = CounterAdd(opinions, -1, peerOpinion[p])
  /\ UNCHANGED <<advOpinions, likeAccumulatedWeight,
                 advLikeAccumulatedWeight, mostLikedColor,
                 honestOnlyMostLikedColor, flips, honestFlips>>
  /\ UNCHANGED notOpinionVars

OCIncrementForgetsOpinions(p) ==
  /\ handler[p].pc = "inc"
  /\ likeAccumulatedWeight' =
       CounterAdd(CounterAdd(likeAccumulatedWeight, -PeerWeight(p),
                             handler[p].oldOpinion),
                  PeerWeight(p), handler[p].newOpinion)
  /\ handler' = [handler EXCEPT ![p].pc = "getR"]
  /\ UNCHANGED <<opinions, advOpinions, advLikeAccumulatedWeight,
                 peerOpinion, opinionEvents, mostLikedColor,
                 honestOnlyMostLikedColor, flips, honestFlips>>
  /\ UNCHANGED notOpinionVars

\* lines 453-456
OCIncrement(p) ==
  /\ handler[p].pc = "inc"
  /\ opinions' = CounterAdd(opinions, 1, handler[p].newOpinion)
  /\ likeAccumulatedWeight' =
       CounterAdd(CounterAdd(likeAccumulatedWeight, -PeerWeight(p),
                             handler[p].oldOpinion),
                  PeerWeight(p), handler[p].newOpinion)
  /\ handler' = [handler EXCEPT ![p].pc = "getR"]
  /\ UNCHANGED <<advOpinions, advLikeAccumulatedWeight, peerOpinion,
                 opinionEvents, mostLikedColor, honestOnlyMostLikedColor,
                 flips, honestFlips>>
  /\ UNCHANGED notOpinionVars

\* line 458: getLikesPerRGB reads Red, Green and Blue one after the other
\* (lines 856-858)
OCGetLikes(p) ==
  /\ \/ /\ handler[p].pc = "getR"
        /\ handler' = [handler EXCEPT
             ![p].r = CounterGet(opinions, Red), ![p].pc = "getG"]
     \/ /\ handler[p].pc = "getG"
        /\ handler' = [handler EXCEPT
             ![p].g = CounterGet(opinions, Green), ![p].pc = "getB"]
     \/ /\ handler[p].pc = "getB"
        /\ handler' = [handler EXCEPT
             ![p].b = CounterGet(opinions, Blue), ![p].pc = "flip"]
  /\ UNCHANGED <<opinions, advOpinions, likeAccumulatedWeight,
                 advLikeAccumulatedWeight, peerOpinion, opinionEvents,
                 mostLikedColor, honestOnlyMostLikedColor, flips,
                 honestFlips>>
  /\ UNCHANGED notOpinionVars

\* lines 459-461
OCFlip(p) ==
  /\ handler[p].pc = "flip"
  /\ LET res == MostLikedColorChanged(handler[p].r, handler[p].g,
                                      handler[p].b, mostLikedColor)
     IN /\ mostLikedColor' = res.var
        /\ flips' = IF res.changed THEN flips + 1 ELSE flips
  /\ handler' = [handler EXCEPT ![p].pc =
                   IF IsAdversary(p) THEN "adv" ELSE "getAR"]
  /\ UNCHANGED <<opinions, advOpinions, likeAccumulatedWeight,
                 advLikeAccumulatedWeight, peerOpinion, opinionEvents,
                 honestOnlyMostLikedColor, honestFlips>>
  /\ UNCHANGED notOpinionVars

\* where the handler goes on after lines 459-461
AfterFlip(p) == IF IsAdversary(p) THEN "adv" ELSE "getAR"

(***************************************************************************)
(* Lines 459-461 again, for handlers that run at the same time:            *)
(* mostLikedColorChanged reads and writes the global mostLikedColor        *)
(* without a lock, so its two reads (lines 873 and 875) and its write      *)
(* (line 876 or 879) are steps of their own, and another handler may read  *)
(* or write the global between them.                                       *)
(***************************************************************************)
\* line 873: if *mostLikedColorVar != currentMostLikedColor; line 882 else
OCFlipCompare(p) ==
  /\ handler[p].pc = "flip"
  /\ handler' = [handler EXCEPT ![p].pc =
        IF mostLikedColor # CurrentMostLikedColor(handler[p].r, handler[p].g,
                                                  handler[p].b)
        THEN "first" ELSE AfterFlip(p)]
  /\ UNCHANGED <<opinions, advOpinions, likeAccumulatedWeight,
                 advLikeAccumulatedWeight, peerOpinion, opinionEvents,
                 mostLikedColor, honestOnlyMostLikedColor, flips,
                 honestFlips>>
  /\ UNCHANGED notOpinionVars

\* line 875: if *mostLikedColorVar == multiverse.UndefinedColor
OCFlipFirst(p) ==
  /\ handler[p].pc = "first"
  /\ handler' = [handler EXCEPT ![p].pc =
        IF mostLikedColor = Undefined THEN "writeFirst" ELSE "writeChanged"]
  /\ UNCHANGED <<opinions, advOpinions, likeAccumulatedWeight,
                 advLikeAccumulatedWeight, peerOpinion, opinionEvents,
                 mostLikedColor, honestOnlyMostLikedColor, flips,
                 honestFlips>>
  /\ UNCHANGED notOpinionVars

\* lines 876-877 (return false) or 879-880 (return true), and line 460
OCFlipWrite(p) ==
  /\ handler[p].pc \in {"writeFirst", "writeChanged"}
  /\ mostLikedColor' = CurrentMostLikedColor(handler[p].r, handler[p].g,
                                             handler[p].b)
  /\ flips' = IF handler[p].pc = "writeChanged" THEN flips + 1 ELSE flips
  /\ handler' = [handler EXCEPT ![p].pc = AfterFlip(p)]
  /\ UNCHANGED <<opinions, advOpinions, likeAccumulatedWeight,
                 advLikeAccumulatedWeight, peerOpinion, opinionEvents,
                 honestOnlyMostLikedColor, honestFlips>>
  /\ UNCHANGED notOpinionVars

\* lines 462-467: the adds of lines 463-465, then the add of line 466
OCAdversary(p) ==
  /\ \/ /\ handler[p].pc = "adv"
        /\ advLikeAccumulatedWeight' =
             CounterAdd(CounterAdd(advLikeAccumulatedWeight, -PeerWeight(p),
                                   handler[p].oldOpinion),
                        PeerWeight(p), handler[p].newOpinion)
        /\ advOpinions' = CounterAdd(advOpinions, -1, handler[p].oldOpinion)
        /\ handler' = [handler EXCEPT ![p].pc = "advInc"]
     \/ /\ handler[p].pc = "advInc"
        /\ advOpinions' = CounterAdd(advOpinions, 1, handler[p].newOpinion)
        /\ handler' = [handler EXCEPT ![p].pc = "getAR"]
        /\ UNCHANGED advLikeAccumulatedWeight
  /\ UNCHANGED <<opinions, likeAccumulatedWeight, peerOpinion,
                 opinionEvents, mostLikedColor, honestOnlyMostLikedColor,
                 flips, honestFlips>>
  /\ UNCHANGED notOpinionVars

\* line 469: getLikesPerRGB on the adversary counters
OCGetAdversaryLikes(p) ==
  /\ \/ /\ handler[p].pc = "getAR"
        /\ handler' = [handler EXCEPT
             ![p].ar = CounterGet(advOpinions, Red), ![p].pc = "getAG"]
     \/ /\ handler[p].pc = "getAG"
        /\ handler' = [handler EXCEPT
             ![p].ag = CounterGet(advOpinions, Green), ![p].pc = "getAB"]
     \/ /\ handler[p].pc = "getAB"
        /\ handler' = [handler EXCEPT
             ![p].ab = CounterGet(advOpinions, Blue), ![p].pc = "hflip"]
  /\ UNCHANGED <<opinions, advOpinions, likeAccumulatedWeight,
                 advLikeAccumulatedWeight, peerOpinion, opinionEvents,
                 mostLikedColor, honestOnlyMostLikedColor, flips,
                 honestFlips>>
  /\ UNCHANGED notOpinionVars

\* lines 471-473
OCHonestFlip(p) ==
  /\ handler[p].pc = "hflip"
  /\ LET h == handler[p]
         res == MostLikedColorChanged(h.r - h.ar, h.g - h.ag, h.b - h.ab,
                                      honestOnlyMostLikedColor)
     IN /\ honestOnlyMostLikedColor' = res.var
        /\ honestFlips' = IF res.changed THEN honestFlips + 1
                                         ELSE honestFlips
  /\ handler' = [handler EXCEPT ![p] = IdleHandler]
  /\ UNCHANGED <<opinions, advOpinions, likeAccumulatedWeight,
                 advLikeAccumulatedWeight, peerOpinion, opinionEvents,
                 mostLikedColor, flips>>
  /\ UNCHANGED notOpinionVars

\* lines 288, 291, 306-307: every peer starts at Undefined
\* (line 306 creates the adversary weight counter for Red, Green and Blue
\* only; what ColorCounters.Add does with the Undefined the handler passes
\* at line 463 is outside the source files, and it is modelled as an
\* ordinary key that nothing reads)
InitOpinion ==
  /\ opinions = [c \in Colors |-> IF c = Undefined THEN NumPeers ELSE 0]
  /\ advOpinions = [c \in Colors |->
                      IF c = Undefined THEN NumPeers - NumHonest ELSE 0]
  /\ likeAccumulatedWeight = [c \in Colors |-> 0]
  /\ advLikeAccumulatedWeight = [c \in Colors |-> 0]
  /\ handler = [p \in Peers |-> IdleHandler]
  /\ peerOpinion = [p \in Peers |-> Undefined]
  /\ opinionEvents = 0

(***************************************************************************)
(* The ColorConfirmed, ColorUnconfirmed and MinConfirmedWeightUpdated      *)
(* handlers of every peer (src/main.go, lines 475-503).  The handlers of   *)
(* one peer run one after the other on the peer's goroutine; those of      *)
(* different peers only add to shared counters, and the per-node counters  *)
(* a handler reads are written by the handlers of the same peer only, so   *)
(* each handler is one step.  The events come from the peer's              *)
(* OpinionManager, which is not among the source files: a colour is        *)
(* unconfirmed only after it was confirmed (section 4.7).                  *)
(***************************************************************************)
\* config.NodesTotalWeight
NodesTotalWeight == 2
\* number of confirmation events in one run
MaxConfirmEvents == 4

MinConfirmedWeightKeepsLarger(current, confirmedWeight) ==
  IF current < confirmedWeight THEN confirmedWeight ELSE current

\* lines 500-502: the new value of the node's minConfirmedAccumulatedWeight
MinConfirmedWeight(current, confirmedWeight) ==
  IF current > confirmedWeight THEN confirmedWeight ELSE current

\* lines 475-482
ColorConfirmed(p, confirmedColor, weight) ==
  /\ confirmEvents < MaxConfirmEvents
  /\ nodeConfirmed[p] = Undefined
  /\ nodeConfirmed' = [nodeConfirmed EXCEPT ![p] = confirmedColor]
  /\ confirmEvents' = confirmEvents + 1
  /\ confirmedNodes' = CounterAdd(confirmedNodes, 1, confirmedColor)
  /\ confirmedAccumulatedWeight' =
       CounterAdd(confirmedAccumulatedWeight, weight, confirmedColor)
  /\ IF IsAdversary(p)
     THEN /\ advConfirmedNodes' =
               CounterAdd(advConfirmedNodes, 1, confirmedColor)
          /\ advConfirmedAccumulatedWeight' =
               CounterAdd(advConfirmedAccumulatedWeight, weight,
                          confirmedColor)
     ELSE UNCHANGED <<advConfirmedNodes, advConfirmedAccumulatedWeight>>
  /\ UNCHANGED <<colorUnconfirmed, unconfirmedAccumulatedWeight,
                 minConfirmedAccumulatedWeight, unconfirmationCount,
                 weightsSince>>
  /\ UNCHANGED notConfirmVars

\* lines 484-496
ColorUnconfirmed(p, unconfirmedColor, weight) ==
  /\ confirmEvents < MaxConfirmEvents
  /\ nodeConfirmed[p] = unconfirmedColor
  /\ nodeConfirmed' = [nodeConfirmed EXCEPT ![p] = Undefined]
  /\ confirmEvents' = confirmEvents + 1
  /\ colorUnconfirmed' = CounterAdd(colorUnconfirmed, 1, unconfirmedColor)
  /\ confirmedNodes' = CounterAdd(confirmedNodes, -1, unconfirmedColor)
  /\ unconfirmedAccumulatedWeight' =
       CounterAdd(unconfirmedAccumulatedWeight, weight, unconfirmedColor)
  /\ confirmedAccumulatedWeight' =
       CounterAdd(confirmedAccumulatedWeight, -weight, unconfirmedColor)
  /\ minConfirmedAccumulatedWeight' =
       [minConfirmedAccumulatedWeight EXCEPT ![p] = NodesTotalWeight]
  /\ unconfirmationCount' = [unconfirmationCount EXCEPT ![p] = @ + 1]
  /\ weightsSince' = [weightsSince EXCEPT ![p] = <<>>]
  /\ UNCHANGED <<advConfirmedNodes, advConfirmedAccumulatedWeight>>
  /\ UNCHANGED notConfirmVars

\* lines 499-503
MinConfirmedWeightUpdated(p, opinion, confirmedWeight) ==
  /\ confirmEvents < MaxConfirmEvents
  /\ confirmEvents' = confirmEvents + 1
  /\ minConfirmedAccumulatedWeight' =
       [minConfirmedAccumulatedWeight EXCEPT
          ![p] = MinConfirmedWeight(@, confirmedWeight)]
  /\ weightsSince' = [weightsSince EXCEPT ![p] = Append(@, confirmedWeight)]
  /\ UNCHANGED <<confirmedNodes, advConfirmedNodes, colorUnconfirmed,
                 confirmedAccumulatedWeight, advConfirmedAccumulatedWeight,
                 unconfirmedAccumulatedWeight, unconfirmationCount,
                 nodeConfirmed>>
  /\ UNCHANGED notConfirmVars

\* lines 289, 302-304, 308-309 and 312-316
InitConfirm ==
  /\ confirmedNodes = [c \in Colors |-> 0]
  /\ advConfirmedNodes = [c \in Colors |-> 0]
  /\ colorUnconfirmed = [c \in RGB |-> 0]
  /\ confirmedAccumulatedWeight = [c \in RGB |-> 0]
  /\ advConfirmedAccumulatedWeight = [c \in Colors |-> 0]
  /\ unconfirmedAccumulatedWeight = [c \in RGB |-> 0]
  /\ minConfirmedAccumulatedWeight = [p \in Peers |-> NodesTotalWeight]
  /\ unconfirmationCount = [p \in Peers |-> 0]
  /\ nodeConfirmed = [p \in Peers |-> Undefined]
  /\ weightsSince = [p \in Peers |-> <<>>]
  /\ confirmEvents = 0

(***************************************************************************)
(* sendMessage (src/main.go, lines 825-833) and its two callers.  The      *)
(* node's IssuePayload is not among the source files: it mints one message *)
(* with the payload it is given (section 6).                               *)
(***************************************************************************)
\* number of sendMessage calls in one run
MaxSends == 3

\* NodeInterface.IssuePayload(color) on the node of peer p
NodeIssuePayload(issued, p, color) == [issued EXCEPT ![p] = Append(@, color)]

\* lines 825-833; optionalColor is the variadic argument, a sequence
SendMessage(peer, optionalColor) ==
  /\ tps' = tps + 1
  /\ issuedPayloads' =
       LET first == IF Len(optionalColor) >= 1
                    THEN NodeIssuePayload(issuedPayloads, peer,
                                          optionalColor[1])
                    ELSE issuedPayloads
       IN NodeIssuePayload(first, peer, Undefined)
  /\ sendCalls' = [sendCalls EXCEPT ![peer] = Append(@, optionalColor)]
  /\ UNCHANGED notSendVars

TotalSends == SumOver([p \in Peers |-> Len(sendCalls[p])], Peers)

\* startSecurityWorker, line 819: sendMessage(peer)
SecurityWorkerTick(p) ==
  /\ TotalSends < MaxSends
  /\ SendMessage(p, <<>>)

\* SimulateDoubleSpent, lines 132 and 146: go sendMessage(node, color),
\* once for an issuer
DoubleSpend(p, color) ==
  /\ TotalSends < MaxSends
  /\ \A i \in DOMAIN sendCalls[p] : sendCalls[p][i] = <<>>
  /\ SendMessage(p, <<color>>)

\* line 320
InitSend ==
  /\ tps = 0
  /\ issuedPayloads = [p \in Peers |-> <<>>]
  /\ sendCalls = [p \in Peers |-> <<>>]

(***************************************************************************)
(* The end of the simulation (src/main.go): main from its select on        *)
(* (lines 113-120), shutdownSimulation (lines 153-157), the dumping        *)
(* goroutine (lines 539-543) and dumpRecords (lines 548-590).  dumpRecords *)
(* reads the confirmedNodes counters one by one while the ColorConfirmed   *)
(* and ColorUnconfirmed handlers of the peers run on their own goroutines, *)
(* so here the ColorConfirmed handler of an adversary is two steps: its    *)
(* adds to colorCounters, then its adds to adversaryCounters.  The other   *)
(* handlers write one counter that dumpRecords reads and stay one step.    *)
(***************************************************************************)
\* number of ticks of dumpingTicker in one run
MaxTicks == 2
\* number of confirmation events in one run of the shutdown specification
MaxShutdownEvents == 2
\* config.SimulationStopThreshold as a fraction: full agreement
StopThresholdNum == 1
StopThresholdDen == 1

\* honestNodesCount, line 284
HonestNodesCount == NumHonest

\* line 836-841
Max(x, y) == IF x < y THEN y ELSE x

\* int64(config.SimulationStopThreshold*float64(honestNodesCount)): the
\* conversion to int64 drops the fraction
StopCount == (StopThresholdNum * HonestNodesCount) \div StopThresholdDen

\* lines 585-586: the condition under which dumpRecords sends the signal
ConsensusReached(r, g, b, aR, aG, aB) ==
  LET hR == r - aR
      hG == g - aG
      hB == b - aB
  IN Max(Max(hB, hR), hG) >= StopCount

WgDoneLost(counter) == counter

\* simulationWg.Done()
WgDone(counter) == counter - 1

IdleDump == [r |-> 0, g |-> 0, b |-> 0, aR |-> 0, aG |-> 0, aB |-> 0]

\* the ticker sends a tick; while one waits in the channel a tick is dropped
Tick ==
  /\ ~tickerStopped
  /\ ticks < MaxTicks
  /\ ticks' = ticks + 1
  /\ tickPending' = TRUE
  /\ UNCHANGED <<mainPc, shutdownCause, dumpPc, dump, tickerStopped,
                 simulationWg, confirmHandler>>
  /\ UNCHANGED <<tangleVars, flipVars, opinionVars, confirmVars, sendVars>>

\* lines 540-541: for range dumpingTicker.C { dumpRecords(...) }
DumpStart ==
  /\ dumpPc = "idle"
  /\ tickPending
  /\ tickPending' = FALSE
  /\ dumpPc' = "add"
  /\ UNCHANGED <<mainPc, shutdownCause, dump, tickerStopped, ticks,
                 simulationWg, confirmHandler>>
  /\ UNCHANGED <<tangleVars, flipVars, opinionVars, confirmVars, sendVars>>

\* line 549: simulationWg.Add(1)
DumpWgAdd ==
  /\ dumpPc = "add"
  /\ simulationWg' = simulationWg + 1
  /\ dumpPc' = "done"
  /\ UNCHANGED <<mainPc, shutdownCause, dump, tickPending, tickerStopped,
                 ticks, confirmHandler>>
  /\ UNCHANGED <<tangleVars, flipVars, opinionVars, confirmVars, sendVars>>

\* line 550: simulationWg.Done()
DumpWgDone ==
  /\ dumpPc = "done"
  /\ simulationWg' = WgDone(simulationWg)
  /\ dumpPc' = "records"
  /\ UNCHANGED <<mainPc, shutdownCause, dump, tickPending, tickerStopped,
                 ticks, confirmHandler>>
  /\ UNCHANGED <<tangleVars, flipVars, opinionVars, confirmVars, sendVars>>

\* lines 552-579: the log lines and the records of the five CSV writers
DumpWriteRecords ==
  /\ dumpPc = "records"
  /\ dumpPc' = "getR"
  /\ UNCHANGED <<mainPc, shutdownCause, dump, tickPending, tickerStopped,
                 ticks, simulationWg, confirmHandler>>
  /\ UNCHANGED <<tangleVars, flipVars, opinionVars, confirmVars, sendVars>>

\* lines 583-584: getLikesPerRGB on colorCounters and on adversaryCounters,
\* six reads one after the other (lines 856-858)
DumpGetConfirmed ==
  /\ \/ /\ dumpPc = "getR"
        /\ dump' = [dump EXCEPT !.r = CounterGet(confirmedNodes, Red)]
        /\ dumpPc' = "getG"
     \/ /\ dumpPc = "getG"
        /\ dump' = [dump EXCEPT !.g = CounterGet(confirmedNodes, Green)]
        /\ dumpPc' = "getB"
     \/ /\ dumpPc = "getB"
        /\ dump' = [dump EXCEPT !.b = CounterGet(confirmedNodes, Blue)]
        /\ dumpPc' = "getAR"
     \/ /\ dumpPc = "getAR"
        /\ dump' = [dump EXCEPT !.aR = CounterGet(advConfirmedNodes, Red)]
        /\ dumpPc' = "getAG"
     \/ /\ dumpPc = "getAG"
        /\ dump' = [dump EXCEPT !.aG = CounterGet(advConfirmedNodes, Green)]
        /\ dumpPc' = "getAB"
     \/ /\ dumpPc = "getAB"
        /\ dump' = [dump EXCEPT !.aB = CounterGet(advConfirmedNodes, Blue)]
        /\ dumpPc' = "decide"
  /\ UNCHANGED <<mainPc, shutdownCause, tickPending, tickerStopped, ticks,
                 simulationWg, confirmHandler>>
  /\ UNCHANGED <<tangleVars, flipVars, opinionVars, confirmVars, sendVars>>

\* lines 585-586: the test; with it true the goroutine goes on to send
DumpDecide ==
  /\ dumpPc = "decide"
  /\ dumpPc' = IF ConsensusReached(dump.r, dump.g, dump.b,
                                   dump.aR, dump.aG, dump.aB)
               THEN "send" ELSE "reset"
  /\ UNCHANGED <<mainPc, shutdownCause, dump, tickPending, tickerStopped,
                 ticks, simulationWg, confirmHandler>>
  /\ UNCHANGED <<tangleVars, flipVars, opinionVars, confirmVars, sendVars>>

\* line 589: atomicCounters.Set("tps", 0), and the return to the range loop
DumpReset ==
  /\ dumpPc = "reset"
  /\ tps' = 0
  /\ dump' = IdleDump
  /\ dumpPc' = "idle"
  /\ UNCHANGED <<issuedPayloads, sendCalls>>
  /\ UNCHANGED <<mainPc, shutdownCause, tickPending, tickerStopped, ticks,
                 simulationWg, confirmHandler>>
  /\ UNCHANGED <<tangleVars, flipVars, opinionVars, confirmVars>>

\* lines 101-113: main gets to its select (the dumping goroutine was started
\* by monitorNetworkState at line 105)
MainReachSelect ==
  /\ mainPc = "running"
  /\ mainPc' = "select"
  /\ UNCHANGED <<shutdownCause, dumpPc, dump, tickPending, tickerStopped,
                 ticks, simulationWg, confirmHandler>>
  /\ UNCHANGED <<tangleVars, flipVars, opinionVars, confirmVars, sendVars>>

\* line 587 and line 114: shutdownSignal is unbuffered, so the send of the
\* dumping goroutine and the receive of main's select are one step
ReceiveShutdownSignal ==
  /\ mainPc = "select"
  /\ dumpPc = "send"
  /\ mainPc' = "stop"
  /\ shutdownCause' = "consensus"
  /\ dumpPc' = "reset"
  /\ UNCHANGED <<dump, tickPending, tickerStopped, ticks, simulationWg,
                 confirmHandler>>
  /\ UNCHANGED <<tangleVars, flipVars, opinionVars, confirmVars, sendVars>>

\* line 117: the timer of time.After fires
MainTimeout ==
  /\ mainPc = "select"
  /\ mainPc' = "stop"
  /\ shutdownCause' = "timeout"
  /\ UNCHANGED <<dumpPc, dump, tickPending, tickerStopped, ticks,
                 simulationWg, confirmHandler>>
  /\ UNCHANGED <<tangleVars, flipVars, opinionVars, confirmVars, sendVars>>

\* line 154: dumpingTicker.Stop() sends no more ticks; it does not close the
\* channel and does not drain it
MainStopTicker ==
  /\ mainPc = "stop"
  /\ tickerStopped' = TRUE
  /\ mainPc' = "final"
  /\ UNCHANGED <<shutdownCause, dumpPc, dump, tickPending, ticks,
                 simulationWg, confirmHandler>>
  /\ UNCHANGED <<tangleVars, flipVars, opinionVars, confirmVars, sendVars>>

\* line 155: dumpFinalRecorder()
MainDumpFinal ==
  /\ mainPc = "final"
  /\ mainPc' = "wait"
  /\ UNCHANGED <<shutdownCause, dumpPc, dump, tickPending, tickerStopped,
                 ticks, simulationWg, confirmHandler>>
  /\ UNCHANGED <<tangleVars, flipVars, opinionVars, confirmVars, sendVars>>

\* line 156: simulationWg.Wait() returns when the counter is 0, and with it
\* shutdownSimulation
MainWait ==
  /\ mainPc = "wait"
  /\ simulationWg = 0
  /\ mainPc' = "returned"
  /\ UNCHANGED <<shutdownCause, dumpPc, dump, tickPending, tickerStopped,
                 ticks, simulationWg, confirmHandler>>
  /\ UNCHANGED <<tangleVars, flipVars, opinionVars, confirmVars, sendVars>>

\* lines 475-477: a peer confirms a colour; the handler's adds to
\* colorCounters, the whole handler for an honest peer
CCColorCounters(p, confirmedColor) ==
  /\ confirmEvents < MaxShutdownEvents
  /\ confirmHandler[p] = "idle"
  /\ nodeConfirmed[p] = Undefined
  /\ nodeConfirmed' = [nodeConfirmed EXCEPT ![p] = confirmedColor]
  /\ confirmEvents' = confirmEvents + 1
  /\ confirmedNodes' = CounterAdd(confirmedNodes, 1, confirmedColor)
  /\ confirmedAccumulatedWeight' =
       CounterAdd(confirmedAccumulatedWeight, PeerWeight(p), confirmedColor)
  /\ confirmHandler' = [confirmHandler EXCEPT ![p] =
                          IF IsAdversary(p) THEN confirmedColor ELSE "idle"]
  /\ UNCHANGED <<advConfirmedNodes, advConfirmedAccumulatedWeight,
                 colorUnconfirmed, unconfirmedAccumulatedWeight,
                 minConfirmedAccumulatedWeight, unconfirmationCount,
                 weightsSince>>
  /\ UNCHANGED <<mainPc, shutdownCause, dumpPc, dump, tickPending,
                 tickerStopped, ticks, simulationWg>>
  /\ UNCHANGED <<tangleVars, flipVars, opinionVars, sendVars>>

\* lines 478-481: the adds of an adversary's handler to adversaryCounters
CCAdversaryCounters(p) ==
  /\ confirmHandler[p] # "idle"
  /\ advConfirmedNodes' = CounterAdd(advConfirmedNodes, 1, confirmHandler[p])
  /\ advConfirmedAccumulatedWeight' =
       CounterAdd(advConfirmedAccumulatedWeight, PeerWeight(p),
                  confirmHandler[p])
  /\ confirmHandler' = [confirmHandler EXCEPT ![p] = "idle"]
  /\ UNCHANGED <<confirmedNodes, colorUnconfirmed, confirmedAccumulatedWeight,
                 unconfirmedAccumulatedWeight, minConfirmedAccumulatedWeight,
                 unconfirmationCount, nodeConfirmed, weightsSince,
                 confirmEvents>>
  /\ UNCHANGED <<mainPc, shutdownCause, dumpPc, dump, tickPending,
                 tickerStopped, ticks, simulationWg>>
  /\ UNCHANGED <<tangleVars, flipVars, opinionVars, sendVars>>

\* lines 484-496, once the peer's ColorConfirmed handler has returned
CUAfterConfirmed(p, unconfirmedColor) ==
  /\ confirmEvents < MaxShutdownEvents
  /\ confirmHandler[p] = "idle"
  /\ ColorUnconfirmed(p, unconfirmedColor, PeerWeight(p))

\* lines 56-59 and where main and the dumping goroutine start
InitShutdown ==
  /\ mainPc = "running"
  /\ shutdownCause = "none"
  /\ dumpPc = "idle"
  /\ dump = IdleDump
  /\ tickPending = FALSE
  /\ tickerStopped = FALSE
  /\ ticks = 0
  /\ simulationWg = 0
  /\ confirmHandler = [p \in Peers |-> "idle"]

(***************************************************************************)
(* The specifications.                                                     *)
(***************************************************************************)
Init ==
  /\ InitTangle /\ InitFlips /\ InitOpinion /\ InitConfirm /\ InitSend
  /\ InitShutdown

NextTangle ==
  \/ CreateMessage
  \/ \E n \in Nodes, id \in MsgIDs : ProcessMessage(n, id)

SpecTangle == Init /\ [][NextTangle]_vars

NextIssue ==
  \* startSecurityWorker, line 819: sendMessage(peer) issues Undefined
  \/ \E n \in Nodes : IssuePayload(n, Undefined)
  \/ \E n \in Nodes, id \in MsgIDs : ProcessMessage(n, id)

SpecIssue == Init /\ [][NextIssue]_vars

\* node n is handed message id: a step of ProcessMessage(n, id), the only
\* action that counts a delivery
Handed(n, id) == deliveries'[n][id] = deliveries[n][id] + 1

\* the delivery tasks and the inbox consumer of a peer keep running, so a
\* message on its way to a node is processed in the end.  This is weak
\* fairness of every ProcessMessage(n, id), WF_vars(ProcessMessage(n, id)),
\* written out: the action is enabled exactly while <<n, id>> is in flight
SpecIssueFair ==
  SpecIssue /\ \A n \in Nodes, id \in MsgIDs :
                 \/ []<>(<<n, id>> \notin inflight)
                 \/ []<><<Handed(n, id)>>_vars

NextFlips == \E r, g, b \in 0..MaxLikes : CallMostLikedColorChanged(r, g, b)

SpecFlips == Init /\ [][NextFlips]_vars

NextOpinion ==
  \E p \in Peers :
    \/ \E new \in RGB : OCTrigger(p, new)
    \/ OCIncrement(p)
    \/ OCGetLikes(p)
    \/ OCFlip(p)
    \/ OCAdversary(p)
    \/ OCGetAdversaryLikes(p)
    \/ OCHonestFlip(p)

SpecOpinion == Init /\ [][NextOpinion]_vars

\* the handlers with the unlocked accesses of mostLikedColorChanged apart
NextRace ==
  \E p \in Peers :
    \/ \E new \in RGB : OCTrigger(p, new)
    \/ OCIncrement(p)
    \/ OCGetLikes(p)
    \/ OCFlipCompare(p)
    \/ OCFlipFirst(p)
    \/ OCFlipWrite(p)
    \/ OCAdversary(p)
    \/ OCGetAdversaryLikes(p)
    \/ OCHonestFlip(p)

SpecRace == Init /\ [][NextRace]_vars

NextConfirm ==
  \E p \in Peers, c \in RGB :
    \/ \E weight \in 0..NodesTotalWeight : ColorConfirmed(p, c, weight)
    \/ \E weight \in 0..NodesTotalWeight : ColorUnconfirmed(p, c, weight)
    \* a weight above the total is delivered too: the handler must ignore it
    \/ \E weight \in 0..(NodesTotalWeight + 1) :
         MinConfirmedWeightUpdated(p, c, weight)

SpecConfirm == Init /\ [][NextConfirm]_vars

NextSend ==
  \E p \in Peers :
    \/ SecurityWorkerTick(p)
    \/ \E c \in RGB : DoubleSpend(p, c)

SpecSend == Init /\ [][NextSend]_vars

\* the steps of the main goroutine
Main ==
  \/ MainReachSelect
  \/ MainTimeout
  \/ MainStopTicker
  \/ MainDumpFinal
  \/ MainWait

\* the steps of the dumping goroutine
Dump ==
  \/ DumpStart
  \/ DumpWgAdd
  \/ DumpWgDone
  \/ DumpWriteRecords
  \/ DumpGetConfirmed
  \/ DumpDecide
  \/ DumpReset

NextShutdown ==
  \/ Tick
  \/ Main
  \/ Dump
  \/ ReceiveShutdownSignal
  \/ \E p \in Peers, c \in RGB : CCColorCounters(p, c)
  \/ \E p \in Peers : CCAdversaryCounters(p)
  \/ \E p \in Peers, c \in RGB : CUAfterConfirmed(p, c)

SpecShutdown == Init /\ [][NextShutdown]_vars

\* the Go scheduler runs every goroutine that can run, and the timer of
\* time.After fires: main and the dumping goroutine keep taking their steps
SpecShutdownFair == SpecShutdown /\ WF_vars(Main) /\ WF_vars(Dump)

(***************************************************************************)
(* Claims about the MessageFactory and the tangle.                         *)
(***************************************************************************)
HeightOf(p) == IF p = Genesis THEN 0 ELSE messages[p].height

\* C1: every message CreateMessage returns has height 1 plus the maximum
\* height over all of its strong parents, Genesis counting as height 0.
C1_HeightOnePlusMaxOfAllParents ==
  \A id \in DOMAIN messages :
    messages[id].height =
      1 + SetMax({HeightOf(p) : p \in messages[id].StrongParents})

\* C2: the sequence numbers of one factory are pairwise distinct, form the
\* set 1..n after n calls have returned, and a call that started after
\* another had returned has the larger number; concurrent calls included.
C2_SequenceNumbersMonotonic ==
  \A n \in Nodes :
    /\ \A i, j \in ReturnedBy(n) :
         i # j => messages[i].SequenceNumber # messages[j].SequenceNumber
    /\ {messages[i].SequenceNumber : i \in ReturnedBy(n)}
         = 1..Cardinality(ReturnedBy(n))
    /\ \A i \in ReturnedBy(n) : \A j \in callLog[i].returnedBefore :
         messages[j].SequenceNumber < messages[i].SequenceNumber

\* two calls on one factory overlapped and both returned, and a third call
\* on that factory started after one of them had returned
C2_Witness ==
  \E n \in Nodes : \E i, j, k \in ReturnedBy(n) :
    /\ i # j
    /\ i \notin callLog[j].returnedBefore
    /\ j \notin callLog[i].returnedBefore
    /\ i \in callLog[k].returnedBefore

\* C3: a call that finds the tip set empty gets {Genesis} from tip
\* selection, and a call whose strong parents are Genesis alone returns a
\* message of height 1 without any GetTip lookup.
C3_EmptyTipSetGivesHeightOne ==
  \A id \in DOMAIN messages :
    /\ callLog[id].tipsEmpty => messages[id].StrongParents = {Genesis}
    /\ messages[id].StrongParents \subseteq {Genesis} =>
         /\ messages[id].height = 1
         /\ callLog[id].lookups = 0

\* a message was created on an empty tip set while another node's tip set
\* was not empty
C3_Witness ==
  \E id \in DOMAIN messages :
    /\ callLog[id].tipsEmpty
    /\ \E n \in Nodes : DOMAIN tangle[n].TipManager # {}

\* C9: a step of CreateMessage changes no node's tip set, storage or
\* metadata; of the counters it advances only the message ID counter and
\* its own factory's sequence number, by one.
C9_CreateMessageFrame ==
  [][calls' # calls =>
       /\ tangle' = tangle
       /\ deliveries' = deliveries
       /\ \A i \in DOMAIN messages :
            i \in DOMAIN messages' /\ messages'[i] = messages[i]
       /\ \A n \in Nodes :
            \/ sequenceNumber'[n] = sequenceNumber[n]
            \/ /\ sequenceNumber'[n] = sequenceNumber[n] + 1
               /\ \E c \in Callers : calls[c].pc = "add" /\ calls[c].node = n
                                      /\ calls'[c].pc = "idle"]_vars

\* a call with payload Red has returned on a node whose tangle holds
\* messages and tips, and its message is not yet processed
C9_Witness ==
  \E id \in DOMAIN messages :
    LET n == messages[id].Issuer
    IN /\ messages[id].Payload = Red
       /\ tangle[n].Storage # {}
       /\ DOMAIN tangle[n].TipManager # {}
       /\ id \notin tangle[n].Storage

\* C10: at every node every message is booked, entered into the tip set
\* and gossiped exactly once, however often and in whatever order it and
\* its parents are delivered; a repeated delivery changes neither the
\* node's metadata nor its tip set and emits no second MessageStored.
C10_BookedExactlyOnce ==
  /\ [](\A n \in Nodes : \A m \in MsgIDs :
          LET e == tangle[n].Events
          IN /\ e.MessageStored[m] = IF m \in tangle[n].Storage THEN 1 ELSE 0
             /\ e.Booked[m] = IF m \in tangle[n].solid THEN 1 ELSE 0
             /\ e.TipAdded[m] = e.Booked[m]
             /\ e.Gossiped[m] = e.Booked[m])
  /\ [][\A n \in Nodes : \A m \in MsgIDs :
          (m \in tangle[n].Storage /\ deliveries'[n][m] > deliveries[n][m])
             => tangle'[n] = tangle[n]]_vars

\* a node was handed a booked message a second time, and a node has booked
\* a message that it had first parked behind a missing parent
C10_Witness ==
  /\ \E n \in Nodes : \E m \in MsgIDs :
       deliveries[n][m] >= 2 /\ tangle[n].Events.Booked[m] = 1
  /\ \E n \in Nodes : \E m \in tangle[n].solid :
       \E p \in StrongParentsOf(m) : tangle[n].Events.Request[p] >= 1

(***************************************************************************)
(* Claims about the flip counting.                                         *)
(***************************************************************************)
\* the colours the tracked most-liked colour went through, from Undefined
RECURSIVE Transitions(_, _)
Transitions(last, h) ==
  IF h = <<>> THEN <<last>>
  ELSE IF Head(h) = last THEN Transitions(last, Tail(h))
       ELSE <<last>> \o Transitions(Head(h), Tail(h))

\* C4: a call that moves the tracked colour away from Undefined returns
\* false and adds no flip, a later change from one colour to a different
\* colour returns true and adds exactly one flip, a call that changes
\* nothing adds none; a run through Undefined, Red, Blue, Green counts
\* exactly 2 flips.
C4_FirstSelectionIsNoFlip ==
  /\ [][Len(likedHistory') > Len(likedHistory) =>
          /\ mostLikedColor = Undefined =>
               ~lastCall'.changed /\ flips' = flips
          /\ mostLikedColor' = mostLikedColor =>
               ~lastCall'.changed /\ flips' = flips
          /\ (mostLikedColor \in RGB /\ mostLikedColor' \in RGB
               /\ mostLikedColor' # mostLikedColor) =>
               lastCall'.changed /\ flips' = flips + 1]_vars
  /\ [](Transitions(Undefined, likedHistory)
          = <<Undefined, Red, Blue, Green>> => flips = 2)

\* the tracked colour went Undefined, Red, Blue, Green
C4_Witness ==
  /\ Transitions(Undefined, likedHistory) = <<Undefined, Red, Blue, Green>>
  /\ flips = 2

\* C5: every increment of flips, and of honestFlips, goes with a change of
\* the tracked colour from one colour of Red, Green, Blue to another of
\* them; a change to Undefined is never counted.
C5_FlipsOnlyBetweenColours ==
  [][/\ flips' > flips =>
          /\ mostLikedColor \in RGB
          /\ mostLikedColor' \in RGB
          /\ mostLikedColor' # mostLikedColor
     /\ honestFlips' > honestFlips =>
          /\ honestOnlyMostLikedColor \in RGB
          /\ honestOnlyMostLikedColor' \in RGB
          /\ honestOnlyMostLikedColor' # honestOnlyMostLikedColor]_vars

LikeCount(c) == CASE c = Red -> lastCall.r
                  [] c = Green -> lastCall.g
                  [] c = Blue -> lastCall.b
                  [] OTHER -> 0

\* the fixed order that resolves ties: Green before Blue before Red
TieRank(c) == CASE c = Green -> 1
                [] c = Blue -> 2
                [] c = Red -> 3
                [] OTHER -> 4

\* C6: for non-negative counts the selected colour has the largest count,
\* ties go to the colour that comes first in one fixed order, and the
\* selection is Undefined exactly when all three counts are 0.
C6_SelectsLargestCount ==
  likedHistory # <<>> =>
    /\ mostLikedColor = Undefined
         <=> (lastCall.r = 0 /\ lastCall.g = 0 /\ lastCall.b = 0)
    /\ mostLikedColor \in RGB =>
         \A c \in RGB :
           \/ LikeCount(c) < LikeCount(mostLikedColor)
           \/ /\ LikeCount(c) = LikeCount(mostLikedColor)
              /\ TieRank(mostLikedColor) <= TieRank(c)

\* a call was given a three-way tie of positive counts after a call with
\* a two-way tie between Red and Blue
C6_Witness ==
  /\ Len(likedHistory) >= 2
  /\ likedHistory[Len(likedHistory) - 1] = Blue
  /\ lastCall.r = lastCall.g /\ lastCall.g = lastCall.b /\ lastCall.r > 0
  /\ mostLikedColor = Green

(***************************************************************************)
(* Claims about the confirmation handlers and sendMessage.                 *)
(***************************************************************************)
\* C7: a node's minConfirmedAccumulatedWeight is the minimum of
\* NodesTotalWeight and the weights MinConfirmedWeightUpdated delivered to
\* the node since its latest ColorUnconfirmed; it never exceeds
\* NodesTotalWeight and does not grow between two ColorUnconfirmed events.
C7_MinConfirmedWeightIsMinimum ==
  /\ [](\A p \in Peers :
          /\ minConfirmedAccumulatedWeight[p] =
               SetMin({NodesTotalWeight} \cup Range(weightsSince[p]))
          /\ minConfirmedAccumulatedWeight[p] <= NodesTotalWeight)
  /\ [][\A p \in Peers :
          unconfirmationCount'[p] = unconfirmationCount[p] =>
            minConfirmedAccumulatedWeight'[p]
              <= minConfirmedAccumulatedWeight[p]]_vars

\* after a ColorUnconfirmed, a node was delivered a weight below the
\* total and then a larger one
C7_Witness ==
  \E p \in Peers :
    /\ unconfirmationCount[p] >= 1
    /\ Len(weightsSince[p]) >= 2
    /\ weightsSince[p][1] < weightsSince[p][2]
    /\ minConfirmedAccumulatedWeight[p] = weightsSince[p][1]

\* the payload a sendMessage call is to issue
PayloadOfCall(optionalColor) ==
  IF optionalColor = <<>> THEN Undefined ELSE optionalColor[1]

\* C8: every sendMessage call issues exactly one message on the peer's
\* node, with the colour given or else UndefinedColor, so that tps counts
\* the messages issued.
C8_SendIssuesExactlyOne ==
  /\ \A p \in Peers :
       issuedPayloads[p] =
         [i \in 1..Len(sendCalls[p]) |-> PayloadOfCall(sendCalls[p][i])]
  /\ tps = SumOver([p \in Peers |-> Len(issuedPayloads[p])], Peers)

(***************************************************************************)
(* Claims about the approval weights and the confirmation of messages.     *)
(***************************************************************************)
\* C11: at every node the weight of every stored message is exactly the sum
\* of the mana of its supporters; no peer's mana is added twice, also when
\* the peer issues several messages that share ancestors.
C11_WeightIsSumOfSupporterMana ==
  \A n \in Nodes : \A m \in tangle[n].Storage :
    tangle[n].weight[m] = SumOver(Mana, tangle[n].supporters[m])

\* a node has booked two messages of one issuer that share an ancestor
C11_Witness ==
  \E n \in Nodes : \E m1, m2 \in tangle[n].solid :
    /\ m1 # m2
    /\ messages[m1].Issuer = messages[m2].Issuer
    /\ \E a \in PastCone(m1) \cap PastCone(m2) :
         /\ messages[m1].Issuer \in tangle[n].supporters[a]
         /\ Cardinality(tangle[n].supporters[a]) >= 2

\* the strong ancestors of a message, the message itself left out
StrongAncestors(id) == PastCone(id) \ {id}

\* C12: at every node every stored strong ancestor of a confirmed message is
\* confirmed, and a confirmed message stays confirmed.
C12_ConfirmedAncestorsConfirmed ==
  /\ [](\A n \in Nodes : \A m \in tangle[n].confirmed :
          \A a \in StrongAncestors(m) \cap tangle[n].Storage :
            a \in tangle[n].confirmed)
  /\ [][\A n \in Nodes : tangle[n].confirmed \subseteq tangle'[n].confirmed]_vars

\* a message of the light peer was booked unconfirmed and is confirmed now,
\* along with a confirmed descendant
C12_Witness ==
  \E n \in Nodes : \E m \in tangle[n].confirmed :
    \E a \in StrongAncestors(m) :
      /\ a \in tangle[n].confirmed
      /\ ~ReachesThreshold(Mana[messages[a].Issuer])
      /\ messages[m].Issuer # messages[a].Issuer

(***************************************************************************)
(* Claims about CreateMessage running next to the pipeline.                *)
(***************************************************************************)
\* C19: a message created with a single strong parent p other than Genesis
\* has the height of p plus one, also when p leaves the tip set between
\* Tips() and GetTip(p).
C19_SingleParentHeight ==
  \A id \in DOMAIN messages :
    \A p \in MsgIDs :
      messages[id].StrongParents = {p} =>
        messages[id].height = messages[p].height + 1

(***************************************************************************)
(* Claims about messages that arrive before their parents.                 *)
(***************************************************************************)
\* node n has stored message c and not all of its strong parents
Parked(n, c) ==
  /\ c \in tangle[n].Storage
  /\ MissingParents(tangle[n], c) # {}

\* the position of a message in the booking order of a tangle, 0 if absent
BookedAt(t, id) ==
  IF id \in Range(t.bookOrder)
  THEN CHOOSE i \in DOMAIN t.bookOrder : t.bookOrder[i] = id
  ELSE 0

\* node n has booked c after each of its strong parents, and the issuer of
\* c is among the supporters of each of them
BookedAfterParents(n, c) ==
  /\ c \in tangle[n].solid
  /\ tangle[n].Events.Booked[c] = 1
  /\ \A p \in StrongParentsOf(c) :
       /\ p \in tangle[n].solid
       /\ BookedAt(tangle[n], p) > 0
       /\ BookedAt(tangle[n], p) < BookedAt(tangle[n], c)
       /\ messages[c].Issuer \in tangle[n].supporters[p]

\* C13: a message received before a strong parent is parked without being
\* booked and a Request for the parent is emitted; once the parent arrives
\* both get booked, the parent first, and the parent's supporters include
\* the child's issuer.
C13_ParkedUntilParentArrives ==
  /\ [](\A n \in Nodes, c \in MsgIDs :
          Parked(n, c) =>
            /\ c \notin tangle[n].solid
            /\ tangle[n].Events.Booked[c] = 0
            /\ \A p \in MissingParents(tangle[n], c) :
                 tangle[n].Events.Request[p] >= 1)
  /\ \A n \in Nodes, c \in MsgIDs :
       Parked(n, c) ~> BookedAfterParents(n, c)

\* a node emitted a Request for a parent of a message and has booked the
\* parents and the child since, one parent being of another issuer
C13_Witness ==
  \E n \in Nodes, c \in MsgIDs :
    /\ c \in tangle[n].Storage
    /\ BookedAfterParents(n, c)
    /\ \E p \in StrongParentsOf(c) : tangle[n].Events.Request[p] >= 1
    /\ \E q \in StrongParentsOf(c) : messages[q].Issuer # messages[c].Issuer

(***************************************************************************)
(* Claims about the counters of the monitoring harness.                    *)
(***************************************************************************)
\* the honest peers that have colour c confirmed
HonestConfirmed(c) ==
  Cardinality({p \in Peers : ~IsAdversary(p) /\ nodeConfirmed[p] = c})

\* C16: for every colour, confirmedNodes of colorCounters minus
\* confirmedNodes of adversaryCounters is the number of honest nodes that
\* have the colour confirmed, and is never negative.
C16_HonestConfirmedCount ==
  \A c \in RGB :
    /\ CounterGet(confirmedNodes, c) - CounterGet(advConfirmedNodes, c)
         = HonestConfirmed(c)
    /\ CounterGet(confirmedNodes, c) - CounterGet(advConfirmedNodes, c) >= 0

\* no OpinionChanged handler is in the middle of executing
NoHandlerRunning == \A p \in Peers : handler[p].pc = "idle"

\* C17: while no OpinionChanged handler is executing, the opinions counters
\* sum to NodesCount, none is negative, and each counts the peers whose
\* latest reported opinion is its colour.
C17_OpinionsCountPeers ==
  NoHandlerRunning =>
    /\ SumOver(opinions, Colors) = NumPeers
    /\ \A c \in Colors :
         /\ CounterGet(opinions, c) >= 0
         /\ CounterGet(opinions, c)
              = Cardinality({p \in Peers : peerOpinion[p] = c})

\* every handler has finished after two peers reported colours, one of
\* them twice
C17_Witness ==
  /\ NoHandlerRunning
  /\ opinionEvents = MaxOpinionEvents
  /\ CounterGet(opinions, Undefined) = NumPeers - 2
  /\ \E c \in RGB : CounterGet(opinions, c) = 2

(***************************************************************************)
(* Claims about the end of the simulation.                                 *)
(***************************************************************************)
\* C14: the dumping goroutine sends the consensus signal only in a state
\* where, for some colour, the honest nodes that have the colour confirmed
\* are at least SimulationStopThreshold times the honest nodes.
C14_SignalOnlyAtConsensus ==
  dumpPc = "send" =>
    \E c \in RGB :
      StopThresholdDen * HonestConfirmed(c)
        >= StopThresholdNum * HonestNodesCount

\* main is in shutdownSimulation or past it
ShuttingDown == mainPc \in {"stop", "final", "wait", "returned"}

C20_NoDumpInProgressAtReturn ==
  mainPc = "returned" => dumpPc \notin {"add", "done", "records"}

(***************************************************************************)
(* Claims about handlers that run at the same time.                        *)
(***************************************************************************)
\* C18: with OpinionChanged handlers of several peers running at the same
\* time, every change of the tracked most-liked colour that the function
\* counts when called alone (one away from a colour other than Undefined)
\* adds exactly one flip, and nothing else adds a flip.
C18_EachChangeCountedOnce ==
  [][/\ flips' \in {flips, flips + 1}
     /\ flips' = flips + 1
          <=> (mostLikedColor # Undefined /\ mostLikedColor' # mostLikedColor)
    ]_vars

=============================================================================
